---- MODULE Spec2Model ----
(***************************************************************************)
(* Model of ChalithComponent (chalith_component/chalith_component.py): an  *)
(* epoch-barrier aggregation component.  It collects one ChalithMessage    *)
(* from every configured input component, concatenates their values and,   *)
(* once all have arrived, publishes one ChalithMessage of its own.         *)
(*                                                                         *)
(* The parent class (AbstractSimulationComponent: epoch signal handling,   *)
(* start_epoch, the completed-epoch bookkeeping) is not part of the        *)
(* repository's sources; it is modelled from the specification.            *)
(***************************************************************************)
EXTENDS Integers, Sequences, FiniteSets, TLC

\* ---------------------------------------------------------------- bounds
MaxEpoch == 2          \* epochs 1..MaxEpoch are started
MaxMsgs  == 4          \* inbound (non-epoch) messages delivered in a run
MaxCalls == 1          \* repeated start_epoch invocations in a run

\* ------------------------------------------------------------ input sets
Senders        == {"A", "B", "X"}      \* source_process_id of inbound messages
InputChoices   == SUBSET {"A", "B"}    \* INPUT_COMPONENTS configurations
ValueChoices   == {"x", "y"}           \* ChalithValue of inbound messages
ChalithChoices == {"", "c"}            \* CHALITH_VALUE configurations
NoMessage      == [kind |-> "none"]

\* Inbound messages handed to general_message_handler with message id mid.
Messages(mid) ==
    [kind : {"Chalith"}, source_process_id : Senders,
     chalith_value : ValueChoices, epoch_number : 1..MaxEpoch,
     message_id : {mid}]
    \cup
    [kind : {"Other"}, source_process_id : {"A"},
     chalith_value : {"x"}, epoch_number : {1}, message_id : {mid}]

VARIABLES
    chalith_value,              \* self.chalith_value
    input_components,           \* self._input_components
    current_message,            \* self._current_message
    current_input_components,   \* self._current_input_components
    triggering_message_ids,     \* self._triggering_message_ids
    latest_epoch,               \* self._latest_epoch
    completed_epoch,            \* self._completed_epoch
    sent,                       \* result messages published on the output topic
    errors,                     \* error messages sent (epoch of each)
    accepted,                   \* history: messages folded since the last clear
    msg_count,                  \* history: inbound messages delivered so far
    calls,                      \* history: repeated start_epoch invocations
    last                        \* history: the operation performed last

vars == <<chalith_value, input_components, current_message,
          current_input_components, triggering_message_ids, latest_epoch,
          completed_epoch, sent, errors, accepted, msg_count, calls, last>>

\* The component's fields as one record.
Self ==
    [chalith_value            |-> chalith_value,
     input_components         |-> input_components,
     current_message          |-> current_message,
     current_input_components |-> current_input_components,
     triggering_message_ids   |-> triggering_message_ids,
     latest_epoch             |-> latest_epoch,
     completed_epoch          |-> completed_epoch,
     sent                     |-> sent,
     errors                   |-> errors,
     accepted                 |-> accepted]

Store(s) ==
    /\ chalith_value'            = s.chalith_value
    /\ input_components'         = s.input_components
    /\ current_message'          = s.current_message
    /\ current_input_components' = s.current_input_components
    /\ triggering_message_ids'   = s.triggering_message_ids
    /\ latest_epoch'             = s.latest_epoch
    /\ completed_epoch'          = s.completed_epoch
    /\ sent'                     = s.sent
    /\ errors'                   = s.errors
    /\ accepted'                 = s.accepted

\* ------------------------------------------------------- ChalithComponent

\* __init__: the configuration is stored, the epoch variables start empty.
construct(inputs, value) ==
    [chalith_value            |-> value,
     input_components         |-> inputs,
     current_message          |-> "",
     current_input_components |-> {},
     triggering_message_ids   |-> <<>>,
     latest_epoch             |-> 0,
     completed_epoch          |-> 0,
     sent                     |-> <<>>,
     errors                   |-> <<>>,
     accepted                 |-> <<>>]

\* Variant: the reset leaves the accumulated message in place.
clear_keep_message(s) ==
    [s EXCEPT !.current_input_components = {},
              !.accepted = <<>>]

\* Variant: the reset leaves the arrived set in place.
clear_keep_arrived(s) ==
    [s EXCEPT !.current_message = "",
              !.accepted = <<>>]

\* clear_epoch_variables (the history of folded messages restarts with it).
clear_epoch_variables(s) ==
    [s EXCEPT !.current_message = "",
              !.current_input_components = {},
              !.accepted = <<>>]

\* The message built by get_message in _send_chalith_message.
chalith_message(s) ==
    [epoch_number           |-> s.latest_epoch,
     triggering_message_ids |-> s.triggering_message_ids,
     chalith_value          |-> s.current_message]

\* _send_chalith_message: ok is the outcome of creating and sending the
\* message; a failure is caught, logged and answered with an error message.
send_chalith_message(s, ok) ==
    IF ok
    THEN [s EXCEPT !.sent = Append(@, chalith_message(s))]
    ELSE [s EXCEPT !.errors = Append(@, s.latest_epoch)]

\* Variant: the barrier never waits.
all_messages_received_always(s) == TRUE

\* Variant: the barrier also asks for at least one received message.
all_messages_received_nonempty(s) ==
    /\ s.current_input_components # {}
    /\ s.input_components = s.current_input_components

all_messages_received_for_epoch(s) ==
    s.input_components = s.current_input_components

\* Variant: the component's own value is put in front.
epoch_result_own_first(s) ==
    IF s.current_input_components # {}
    THEN s.chalith_value \o s.current_message
    ELSE s.chalith_value

\* The value process_epoch stores in _current_message before sending.
epoch_result(s) ==
    IF s.current_input_components # {}
    THEN s.current_message \o s.chalith_value
    ELSE s.chalith_value

\* process_epoch: returns the new state and the method's return value.
process_epoch(s, ok) ==
    [self   |-> send_chalith_message(
                    [s EXCEPT !.current_message = epoch_result(s)], ok),
     result |-> TRUE]

\* Variant: start_epoch without the already-completed check.
start_epoch_unguarded(s, ok) ==
    IF s.latest_epoch = 0
    THEN [self |-> s, result |-> FALSE, processed |-> FALSE, before |-> s]
    ELSE IF all_messages_received_for_epoch(s)
    THEN LET r == process_epoch(s, ok)
         IN  [self      |-> [r.self EXCEPT !.completed_epoch = s.latest_epoch],
              result    |-> r.result,
              processed |-> TRUE,
              before    |-> s]
    ELSE [self |-> s, result |-> FALSE, processed |-> FALSE, before |-> s]

\* start_epoch of the parent class.  processed tells whether process_epoch
\* ran and before is the state it ran on.
start_epoch(s, ok) ==
    IF s.latest_epoch = 0
    THEN [self |-> s, result |-> FALSE, processed |-> FALSE, before |-> s]
    ELSE IF s.completed_epoch = s.latest_epoch
    THEN [self |-> s, result |-> TRUE, processed |-> FALSE, before |-> s]
    ELSE IF all_messages_received_for_epoch(s)
    THEN LET r == process_epoch(s, ok)
         IN  [self      |-> IF r.result
                            THEN [r.self EXCEPT
                                     !.completed_epoch = s.latest_epoch]
                            ELSE r.self,
              result    |-> r.result,
              processed |-> TRUE,
              before    |-> s]
    ELSE [self |-> s, result |-> FALSE, processed |-> FALSE, before |-> s]

\* Variant: the handler without the message type check.
handler_branch_no_kind_check(s, m) ==
    IF m.source_process_id \notin s.input_components THEN "foreign"
    ELSE IF m.source_process_id \in s.current_input_components
    THEN "duplicate"
    ELSE "accept"

\* Variant: the handler without the already-arrived check.
handler_branch_no_duplicate(s, m) ==
    IF m.kind # "Chalith" THEN "unknown"
    ELSE IF m.source_process_id \notin s.input_components THEN "foreign"
    ELSE "accept"

\* Variant: the handler without the expected-set check.
handler_branch_no_foreign(s, m) ==
    IF m.kind # "Chalith" THEN "unknown"
    ELSE IF m.source_process_id \in s.current_input_components
    THEN "duplicate"
    ELSE "accept"

\* The branch general_message_handler takes for message m.
handler_branch(s, m) ==
    IF m.kind # "Chalith" THEN "unknown"
    ELSE IF m.source_process_id \notin s.input_components THEN "foreign"
    ELSE IF m.source_process_id \in s.current_input_components
    THEN "duplicate"
    ELSE "accept"

\* Variant: the new value is put in front of the accumulated message.
fold_message_prepend(s, m) ==
    [s EXCEPT !.current_input_components = @ \cup {m.source_process_id},
              !.current_message = m.chalith_value \o @,
              !.triggering_message_ids = Append(@, m.message_id),
              !.accepted = Append(@, m)]

\* Variant: the message id is put in front of the triggering ids.
fold_message_id_first(s, m) ==
    [s EXCEPT !.current_input_components = @ \cup {m.source_process_id},
              !.current_message = @ \o m.chalith_value,
              !.triggering_message_ids = <<m.message_id>> \o @,
              !.accepted = Append(@, m)]

\* Variant: the sender replaces the arrived set instead of joining it.
fold_message_replace(s, m) ==
    [s EXCEPT !.current_input_components = {m.source_process_id},
              !.current_message = @ \o m.chalith_value,
              !.triggering_message_ids = Append(@, m.message_id),
              !.accepted = Append(@, m)]

\* The else branch of general_message_handler up to the start_epoch call.
fold_message(s, m) ==
    [s EXCEPT !.current_input_components = @ \cup {m.source_process_id},
              !.current_message = @ \o m.chalith_value,
              !.triggering_message_ids = Append(@, m.message_id),
              !.accepted = Append(@, m)]

general_message_handler(s, m, ok) ==
    IF handler_branch(s, m) = "accept"
    THEN start_epoch(fold_message(s, m), ok)
    ELSE [self |-> s, result |-> FALSE, processed |-> FALSE, before |-> s]

\* The epoch signal handled by the parent class: the epoch state is reset
\* for the new epoch and start_epoch is tried at once.
epoch_message_handler(s, n, ok) ==
    start_epoch(
        clear_epoch_variables(
            [s EXCEPT !.latest_epoch = n, !.triggering_message_ids = <<>>]),
        ok)

\* ---------------------------------------------------------------- history
Outcome(r, ok) ==
    IF ~r.processed THEN "none" ELSE IF ok THEN "ok" ELSE "fail"

Record(op, m, pre, r, ok) ==
    [op      |-> op,
     msg     |-> m,
     pre     |-> pre,
     before  |-> r.before,
     publish |-> Outcome(r, ok),
     result  |-> r.result]

\* ---------------------------------------------------------------- actions
Init ==
    /\ \E inputs \in InputChoices, value \in ChalithChoices :
          /\ chalith_value = value
          /\ input_components = inputs
    /\ current_message = ""
    /\ current_input_components = {}
    /\ triggering_message_ids = <<>>
    /\ latest_epoch = 0
    /\ completed_epoch = 0
    /\ sent = <<>>
    /\ errors = <<>>
    /\ accepted = <<>>
    /\ msg_count = 0
    /\ calls = 0
    /\ last = [op |-> "init", msg |-> NoMessage,
               pre |-> construct(input_components, chalith_value),
               before |-> construct(input_components, chalith_value),
               publish |-> "none", result |-> FALSE]

\* The next epoch is signalled once the previous one is completed.
EpochStart ==
    /\ completed_epoch = latest_epoch
    /\ latest_epoch < MaxEpoch
    /\ \E ok \in BOOLEAN :
          LET r == epoch_message_handler(Self, latest_epoch + 1, ok)
          IN  /\ (ok \/ r.processed)
              /\ Store(r.self)
              /\ last' = Record("epoch", NoMessage, Self, r, ok)
    /\ UNCHANGED <<msg_count, calls>>

\* One inbound message is delivered to general_message_handler.
Deliver ==
    /\ msg_count < MaxMsgs
    /\ \E m \in Messages(msg_count + 1), ok \in BOOLEAN :
          LET r == general_message_handler(Self, m, ok)
          IN  /\ (ok \/ r.processed)
              /\ Store(r.self)
              /\ last' = Record("message", m, Self, r, ok)
    /\ msg_count' = msg_count + 1
    /\ UNCHANGED calls

\* start_epoch is invoked again (a repeated epoch signal, a caller's retry).
Finalize ==
    /\ calls < MaxCalls
    /\ \E ok \in BOOLEAN :
          LET r == start_epoch(Self, ok)
          IN  /\ (ok \/ r.processed)
              /\ Store(r.self)
              /\ last' = Record("finalize", NoMessage, Self, r, ok)
    /\ calls' = calls + 1
    /\ UNCHANGED msg_count

Next == EpochStart \/ Deliver \/ Finalize

Spec == Init /\ [][Next]_vars

\* ------------------------------------------------------------- properties
\* Positions in sent of the result messages published for epoch e.
EnvelopesFor(e) == {i \in 1..Len(sent) : sent[i].epoch_number = e}

MessageIds(seq) == [i \in 1..Len(seq) |-> seq[i].message_id]

RECURSIVE ConcatValues(_)
ConcatValues(seq) ==
    IF seq = <<>> THEN ""
    ELSE seq[1].chalith_value \o ConcatValues(Tail(seq))

\* The epoch state (arrived, accumulator, causal ids) of a component record.
EpochState(s) ==
    <<s.current_input_components, s.current_message,
      s.triggering_message_ids>>

\* The last operation handled a ChalithMessage.
HandledChalith == last.op = "message" /\ last.msg.kind = "Chalith"

\* C1: exactly one result message is published for every completed epoch,
\* and none is published for an epoch that is not completed, that is while
\* the arrived set differs from the expected set.
C1_ExactlyOnePerCompletedEpoch ==
    /\ \A e \in 1..MaxEpoch :
          e <= completed_epoch => Cardinality(EnvelopesFor(e)) = 1
    /\ \A e \in 1..MaxEpoch :
          e > completed_epoch => EnvelopesFor(e) = {}
    /\ last.publish = "ok" =>
          last.before.current_input_components = input_components

\* C2: a ChalithMessage whose epoch number differs from the current epoch
\* is ignored: arrived, accumulator and causal ids stay as they were and
\* nothing is published or completed.
C2_OtherEpochIgnored ==
    (HandledChalith /\ last.msg.epoch_number # last.pre.latest_epoch)
        => /\ EpochState(Self) = EpochState(last.pre)
           /\ sent = last.pre.sent
           /\ completed_epoch = last.pre.completed_epoch

\* C3: once every expected participant has contributed to the current
\* epoch, the epoch is completed and exactly one result message exists for
\* it, whose causal ids are exactly the ids of those contributions.
C3_AllContributedOnePublished ==
    (/\ latest_epoch >= 1
     /\ accepted # <<>>
     /\ current_input_components = input_components
     /\ \A i \in 1..Len(accepted) :
           accepted[i].epoch_number = latest_epoch)
        => /\ completed_epoch = latest_epoch
           /\ Cardinality(EnvelopesFor(latest_epoch)) = 1
           /\ \A i \in EnvelopesFor(latest_epoch) :
                 sent[i].triggering_message_ids = MessageIds(accepted)

C5_FailedPublishNotCompleted ==
    last.publish = "fail"
        => /\ completed_epoch # latest_epoch
           /\ last.result = FALSE

\* C6: a failed publication leaves arrived, accumulator and causal ids as
\* they were when the finalization began.
C6_FailedPublishKeepsState ==
    last.publish = "fail" => EpochState(Self) = EpochState(last.before)

\* C7: a further contribution of a participant that has already arrived
\* changes nothing, whatever its value.
C7_DuplicateDiscarded ==
    (HandledChalith
     /\ last.msg.source_process_id \in last.pre.current_input_components)
        => /\ EpochState(Self) = EpochState(last.pre)
           /\ Self = last.pre

C7_Witness ==
    /\ HandledChalith
    /\ last.msg.source_process_id \in last.pre.current_input_components
    /\ latest_epoch >= 1 /\ completed_epoch < latest_epoch
    /\ \E i \in 1..Len(accepted) :
          /\ accepted[i].source_process_id = last.msg.source_process_id
          /\ accepted[i].epoch_number = last.msg.epoch_number
          /\ accepted[i].chalith_value # last.msg.chalith_value

\* C8: a contribution of a participant outside the expected set leaves the
\* whole component state unchanged and publishes nothing.
C8_ForeignIgnored ==
    (HandledChalith /\ last.msg.source_process_id \notin input_components)
        => /\ Self = last.pre
           /\ last.publish = "none"

C8_Witness ==
    /\ HandledChalith
    /\ last.msg.source_process_id \notin input_components
    /\ input_components # {}
    /\ latest_epoch >= 1 /\ completed_epoch < latest_epoch
    /\ current_input_components # {}

C10_FinalizeIdempotent ==
    (/\ last.op = "finalize"
     /\ last.pre.latest_epoch >= 1
     /\ last.pre.completed_epoch = last.pre.latest_epoch)
        => /\ last.publish = "none"
           /\ Self = last.pre

C10_Witness ==
    /\ last.op = "finalize"
    /\ last.pre.completed_epoch = last.pre.latest_epoch
    /\ EnvelopesFor(latest_epoch) # {}
    /\ accepted # <<>>

\* C11: the arrived set is always a subset of the expected set, and no
\* operation changes the expected set after construction.
C11_ArrivedWithinExpected ==
    /\ current_input_components \subseteq input_components
    /\ input_components = last.pre.input_components
    /\ last.publish # "none" =>
          last.before.input_components = input_components

C11_Witness ==
    /\ input_components = {"A"}
    /\ current_input_components = {"A"}
    /\ latest_epoch = 2
    /\ HandledChalith /\ last.msg.source_process_id = "B"
    /\ last.pre.input_components = {"A"}

\* C12: within an epoch the arrived set only grows: a message or a
\* finalization never removes a participant; only the reset at an epoch
\* start makes it smaller.
C12_ArrivedOnlyGrows ==
    last.op # "epoch"
        => /\ last.pre.current_input_components
                 \subseteq last.before.current_input_components
           /\ last.before.current_input_components
                 \subseteq current_input_components

C12_Witness ==
    /\ last.op = "message"
    /\ last.pre.current_input_components = {"A"}
    /\ current_input_components = {"A", "B"}
    /\ last.publish = "ok"

\* The elements of a sequence.
Range(seq) == {seq[i] : i \in 1..Len(seq)}

\* Every result message of the current epoch is built from the messages
\* folded since the epoch's reset and shares no causal id with the result
\* messages of other epochs.
OnlyCurrentContributions ==
    \A i \in EnvelopesFor(latest_epoch) :
        /\ sent[i].triggering_message_ids = MessageIds(accepted)
        /\ sent[i].chalith_value = ConcatValues(accepted) \o chalith_value
        /\ \A j \in 1..Len(sent) :
              sent[j].epoch_number # latest_epoch =>
                  Range(sent[j].triggering_message_ids)
                      \cap Range(sent[i].triggering_message_ids) = {}

C15_NoCrossEpochBuffering ==
    /\ last.op = "epoch" =>
          /\ last.before.current_input_components = {}
          /\ input_components # {} =>
                /\ current_input_components = {}
                /\ completed_epoch < latest_epoch
                /\ EnvelopesFor(latest_epoch) = {}
    /\ latest_epoch >= 1 =>
          current_input_components =
              {accepted[i].source_process_id : i \in 1..Len(accepted)}

C15_Witness ==
    /\ last.op = "epoch"
    /\ last.pre.latest_epoch = 0
    /\ last.pre.current_input_components = input_components
    /\ input_components = {"A", "B"}
    /\ current_input_components = {}
    /\ completed_epoch < latest_epoch

\* The last operation handled a message that takes an ignore branch: one of
\* an unknown kind, of a foreign sender or of a sender that already arrived.
Discarded ==
    /\ last.op = "message"
    /\ \/ last.msg.kind # "Chalith"
       \/ last.msg.source_process_id \notin last.pre.input_components
       \/ last.msg.source_process_id \in last.pre.current_input_components

\* C14: a discarded message (foreign, duplicate or of an unknown kind)
\* leaves the whole component state as it was, publishes and completes
\* nothing, so a run with such messages inserted goes through the same
\* states and publishes the same result; and the epoch is completed as soon
\* as every expected participant has contributed.
C14_DiscardedNoEffect ==
    /\ Discarded =>
          /\ Self = last.pre
          /\ last.publish = "none"
          /\ last.result = FALSE
    /\ (latest_epoch >= 1 /\ current_input_components = input_components)
          => completed_epoch = latest_epoch

C14_Witness ==
    /\ Discarded /\ last.msg.kind = "Other"
    /\ completed_epoch = latest_epoch
    /\ EnvelopesFor(latest_epoch) # {}
    /\ Len(accepted) = 2
    /\ accepted[2].message_id > accepted[1].message_id + 1

\* The accumulated state of s agrees with its arrived set: one causal id
\* per arrived participant, in the order of arrival, and the accumulator is
\* the concatenation of the folded values in that order.
Consistent(s) ==
    /\ Len(s.triggering_message_ids) = Cardinality(s.current_input_components)
    /\ s.triggering_message_ids = MessageIds(s.accepted)
    /\ s.current_input_components =
          {s.accepted[i].source_process_id : i \in 1..Len(s.accepted)}
    /\ s.current_message = ConcatValues(s.accepted)

\* C16: between an epoch start and the finalization the accumulated state
\* is consistent with the arrived set, in every state and in the state the
\* finalization starts from.
C16_AccumulatedConsistent ==
    /\ (latest_epoch >= 1 /\ completed_epoch < latest_epoch)
          => Consistent(Self)
    /\ last.publish # "none" => Consistent(last.before)

C16_Witness ==
    /\ last.publish = "ok"
    /\ Len(last.before.accepted) = 2
    /\ last.before.accepted[1].source_process_id = "B"
    /\ last.before.current_message = "yx"
    /\ last.before.triggering_message_ids = <<2, 4>>

\* C17: once an epoch is completed, no ChalithMessage changes the arrived
\* set or the causal ids or publishes again before the next epoch start:
\* its sender is outside the expected set or has already arrived.
C17_NoChangeAfterPublished ==
    (/\ HandledChalith
     /\ last.pre.latest_epoch >= 1
     /\ last.pre.completed_epoch = last.pre.latest_epoch)
        => /\ current_input_components = last.pre.current_input_components
           /\ triggering_message_ids = last.pre.triggering_message_ids
           /\ sent = last.pre.sent
           /\ \/ last.msg.source_process_id \notin input_components
              \/ last.msg.source_process_id
                    \in last.pre.current_input_components

C17_Witness ==
    /\ HandledChalith
    /\ last.pre.latest_epoch >= 1
    /\ last.pre.completed_epoch = last.pre.latest_epoch
    /\ last.pre.sent # <<>>
    /\ last.msg.source_process_id \in input_components
    /\ last.msg.epoch_number = latest_epoch + 1

\* C18: process_epoch returns True and, when its message is sent, the
\* value is the folded contributions in arrival order followed by the
\* component's own value, or just the own value when nothing arrived.
C18_ProcessEpochValue ==
    last.publish # "none"
        => /\ last.result = TRUE
           /\ completed_epoch = latest_epoch
           /\ current_message =
                 IF last.before.current_input_components # {}
                 THEN ConcatValues(last.before.accepted) \o chalith_value
                 ELSE chalith_value
           /\ last.publish = "ok" =>
                 /\ sent = Append(last.before.sent,
                                  [epoch_number |-> latest_epoch,
                                   triggering_message_ids |->
                                       triggering_message_ids,
                                   chalith_value |-> current_message])

C18_Witness ==
    /\ last.publish = "ok"
    /\ last.result = TRUE
    /\ chalith_value = "c"
    /\ last.before.current_input_components = {"A", "B"}
    /\ sent[Len(sent)].chalith_value = "yyc"

====
